---- MODULE Spec2Model ----
(***************************************************************************)
(* Sento: the private-balance transfer engine.                             *)
(*                                                                         *)
(*   - compressSOL / decompressSOL / transferCompressedSOL                 *)
(*       (lib/solana/light-protocol.ts, here src/app/lib/compliance/       *)
(*        range-intel.ts lines 1104-1356): account selection, proof        *)
(*       request, instruction, submission;                                 *)
(*   - payInvoice (lib/hooks/usePayment.ts) and the invoice page's         *)
(*       handlePayInvoice (app/invoice/[id]/page.tsx);                     *)
(*   - executeBatch (lib/hooks/useBatchPayment.ts);                        *)
(*   - parseError (lib/utils/errors.ts, here src/app/lib/utils/            *)
(*       validation.ts lines 372-452).                                     *)
(*                                                                         *)
(* Amounts are lamports.  JavaScript numbers are IEEE-754 doubles: the     *)
(* conversions lamports -> SOL -> lamports are computed bit by bit below.  *)
(***************************************************************************)
EXTENDS Integers, Sequences, FiniteSets, TLC

(***************************************************************************)
(* Bounds of the model.                                                    *)
(***************************************************************************)
MaxAccounts == 5
MaxTarget == 15

(***************************************************************************)
(* Program constants.                                                      *)
(***************************************************************************)
LAMPORTS_PER_SOL == 1000000000
MaxInputAccounts == 4
MantissaBits == 53

(***************************************************************************)
(* IEEE-754 double arithmetic on positive numbers, round to nearest, ties  *)
(* to even.  A double is [m, e]: m the 53 mantissa bits, most significant  *)
(* first, e the weight of the last bit (value = m * 2^e); zero is FZero.   *)
(* TLC's integers are 32 bits wide, so the mantissa is kept as bits and    *)
(* the long division and multiplication go ChunkBits bits at a time: they  *)
(* take 2^t * odd operands whose odd part is below 2^21, which covers      *)
(* 10^9 = 2^9 * 5^9 and every amount of the model.                         *)
(***************************************************************************)
ChunkBits == 9
IntPartBits == 31
FracChunks == 10
MulChunkCount == 6
HighBits == 22

IntBits(n, k) == [i \in 1..k |-> (n \div 2^(k - i)) % 2]

RECURSIVE BitsInt(_)
BitsInt(b) ==
    IF Len(b) = 0 THEN 0
    ELSE IF Len(b) = 1 THEN b[1]
    ELSE LET h == Len(b) \div 2
         IN  BitsInt(SubSeq(b, 1, Len(b) - h)) * 2^h
               + BitsInt(SubSeq(b, Len(b) - h + 1, Len(b)))

TwoExp(n) == CHOOSE t \in 0..30 : n % 2^t = 0 /\ (n \div 2^t) % 2 = 1
OddPart(n) == n \div 2^TwoExp(n)

FZero == [m |-> <<>>, e |-> 0]

IncBits(b) ==
    IF \A i \in 1..Len(b) : b[i] = 1
    THEN [i \in 1..(Len(b) + 1) |-> IF i = 1 THEN 1 ELSE 0]
    ELSE LET j == CHOOSE k \in 1..Len(b) :
                      b[k] = 0 /\ \A l \in (k + 1)..Len(b) : b[l] = 1
         IN  [i \in 1..Len(b) |-> IF i < j THEN b[i] ELSE IF i = j THEN 1 ELSE 0]

\* all: the bits of a positive number, most significant first, the last bit
\* of weight 2^e; inexact: a nonzero part lies below the last bit.
RoundBits(all, e, inexact) ==
    LET f == CHOOSE i \in 1..Len(all) :
                 all[i] = 1 /\ \A j \in 1..(i - 1) : all[j] = 0
        last == f + MantissaBits - 1
    IN  IF last >= Len(all)
        THEN [m |-> SubSeq(all, f, Len(all)) \o [i \in 1..(last - Len(all)) |-> 0],
              e |-> e - (last - Len(all))]
        ELSE LET b == SubSeq(all, f, last)
                 guard == all[last + 1]
                 sticky == inexact \/ \E i \in (last + 2)..Len(all) : all[i] = 1
                 e2 == e + (Len(all) - last)
             IN  IF guard = 1 /\ (sticky \/ b[MantissaBits] = 1)
                 THEN LET up == IncBits(b)
                      IN  IF Len(up) > MantissaBits
                          THEN [m |-> SubSeq(up, 1, MantissaBits), e |-> e2 + 1]
                          ELSE [m |-> up, e |-> e2]
                 ELSE [m |-> b, e |-> e2]

RECURSIVE DivFrac(_, _, _)
DivFrac(r, y, k) ==
    IF k = 0 THEN [bits |-> <<>>, r |-> r]
    ELSE LET rest == DivFrac((r * 2^ChunkBits) % y, y, k - 1)
         IN  [bits |-> IntBits((r * 2^ChunkBits) \div y, ChunkBits) \o rest.bits,
              r |-> rest.r]

\* the double x / y of two integers (JavaScript: x / y)
FDiv(x, y) ==
    IF x = 0 THEN FZero
    ELSE LET yo == OddPart(y)
             fr == DivFrac(x % yo, yo, FracChunks)
         IN  RoundBits(IntBits(x \div yo, IntPartBits) \o fr.bits,
                       0 - (FracChunks * ChunkBits) - TwoExp(y), fr.r # 0)

RECURSIVE MulLow(_, _, _, _)
MulLow(m, n, k, acc) ==
    IF k = 0 THEN [hi |-> acc, lo |-> <<>>]
    ELSE LET a == acc + BitsInt(SubSeq(m, (k - 1) * ChunkBits + 1, k * ChunkBits)) * n
             rest == MulLow(m, n, k - 1, a \div 2^ChunkBits)
         IN  [hi |-> rest.hi, lo |-> rest.lo \o IntBits(a % 2^ChunkBits, ChunkBits)]

\* the double d * n of a double and an integer (JavaScript: d * n)
FMul(d, n) ==
    IF d.m = <<>> \/ n = 0 THEN FZero
    ELSE LET p == MulLow(<<0>> \o d.m, OddPart(n), MulChunkCount, 0)
         IN  RoundBits(IntBits(p.hi, HighBits) \o p.lo, d.e + TwoExp(n), FALSE)

\* Math.floor of a double below 2^31
FFloor(d) ==
    IF d.m = <<>> \/ 0 - d.e >= MantissaBits THEN 0
    ELSE BitsInt(SubSeq(d.m, 1, MantissaBits + d.e))

(***************************************************************************)
(* Sequences of lamport amounts.                                           *)
(***************************************************************************)
RECURSIVE SumSeq(_)
SumSeq(s) == IF s = <<>> THEN 0 ELSE s[1] + SumSeq(Tail(s))

RECURSIVE SeqsUpTo(_, _)
SeqsUpTo(S, n) ==
    IF n = 0 THEN {<<>>}
    ELSE LET shorter == SeqsUpTo(S, n - 1)
         IN  shorter \cup {Append(s, v) : s \in {t \in shorter : Len(t) = n - 1}, v \in S}

\* s without the positions in drop, order kept
RECURSIVE Without(_, _, _)
Without(s, drop, i) ==
    IF i > Len(s) THEN <<>>
    ELSE IF i \in drop THEN Without(s, drop, i + 1)
    ELSE <<s[i]>> \o Without(s, drop, i + 1)

Range(s) == {s[i] : i \in 1..Len(s)}

(***************************************************************************)
(* Errors.  An error message is modelled by the substrings it contains     *)
(* among those the code searches for (has), plus the place it was thrown   *)
(* (name).  A SentoError carries its code instead.                         *)
(***************************************************************************)
PlainError(name, has) == [sento |-> FALSE, name |-> name, code |-> "", has |-> has]
SentoError(code) == [sento |-> TRUE, name |-> "SentoError", code |-> code, has |-> {}]
NoError == [sento |-> FALSE, name |-> "", code |-> "", has |-> {}]

\* thrown by decompressSOL / transferCompressedSOL themselves
ErrNoCompressed == PlainError("No compressed SOL available for transfer", {"compressed"})
ErrNothingToClaim == PlainError("No compressed SOL to claim", {"compressed"})
ErrInsufficientCompressed ==
    PlainError("Insufficient compressed balance", {"insufficient", "compressed", "balance"})
ErrMaxInFourAccounts == PlainError("Max available in 4 accounts", {})

\* The two messages above embed `${lamports / LAMPORTS_PER_SOL}`.  Below one
\* SOL that text is "0.", zeros, then the digits of the lamports without
\* their trailing zeros, so it contains "9002" when those digits do.
AmountText9002(lamports) == \E k \in 0..8 : (lamports \div 10^k) % 10000 = 9002
WithAmounts(error, a, b) ==
    [error EXCEPT !.has = @ \cup (IF AmountText9002(a) \/ AmountText9002(b)
                                  THEN {"9002"} ELSE {})]

\* thrown by the collaborators (wallet, RPC node, prover, on-chain program)
ErrQueueSimulation ==
    PlainError("Transaction simulation failed: custom program error: 0x232a",
               {"transaction", "failed", "0x232a"})
ErrQueueBare == PlainError("custom program error: 0x232a", {"0x232a"})
ErrUserRejected == PlainError("User rejected the request", {"user rejected"})
ErrFetchFailed == PlainError("fetch failed", {"fetch", "failed"})
ErrProgramRejected == PlainError("Insufficient balance for transfer", {"insufficient", "balance"})
RpcErrors == {ErrQueueSimulation, ErrQueueBare, ErrUserRejected, ErrFetchFailed}
RpcOutcomes == {NoError} \cup RpcErrors

\* parseError: the code of the SentoError it returns
parseError(error) ==
    IF error.sento THEN error.code
    ELSE LET in(needle) == needle \in error.has
         IN  IF in("wallet") /\ in("not connected") THEN "WALLET_NOT_CONNECTED"
             ELSE IF in("user rejected") \/ in("user declined") THEN "WALLET_REJECTED"
             ELSE IF in("disconnected") THEN "WALLET_DISCONNECTED"
             ELSE IF in("insufficient") /\ in("balance") THEN "INSUFFICIENT_BALANCE"
             ELSE IF in("insufficient") /\ in("compressed")
                  THEN "INSUFFICIENT_COMPRESSED_BALANCE"
             ELSE IF in("transaction") /\ in("failed") THEN "TRANSACTION_FAILED"
             ELSE IF in("timeout") \/ in("timed out") THEN "TRANSACTION_TIMEOUT"
             ELSE IF in("cancelled") \/ in("canceled") THEN "TRANSACTION_CANCELLED"
             ELSE IF in("network") \/ in("fetch") THEN "NETWORK_ERROR"
             ELSE IF in("rpc") \/ in("connection refused") THEN "RPC_ERROR"
             ELSE IF in("invalid") /\ in("address") THEN "INVALID_ADDRESS"
             ELSE IF in("invalid") /\ in("amount") THEN "INVALID_AMOUNT"
             ELSE IF in("compliance") THEN "COMPLIANCE_CHECK_FAILED"
             ELSE IF in("not compliant") \/ in("sanctioned") THEN "WALLET_NOT_COMPLIANT"
             ELSE IF in("storage") \/ in("localstorage") THEN "STORAGE_ERROR"
             ELSE "UNKNOWN_ERROR"

(***************************************************************************)
(* Compressed SOL operations.  items is the sequence of lamport amounts    *)
(* rpc.getCompressedAccountsByOwner returned; an account is named by its   *)
(* position in it (its hash).                                              *)
(***************************************************************************)
\* a sort whose comparator is the wrong way round (a - b): ascending
SortedAscending(items) ==
    LET n == Len(items)
        before(i) == {j \in 1..n : items[j] < items[i] \/ (items[j] = items[i] /\ j < i)}
    IN  [k \in 1..n |-> CHOOSE i \in 1..n : Cardinality(before(i)) = k - 1]

\* [...items].sort((a, b) => Number(b.lamports - a.lamports)): positions by
\* descending lamports, equal amounts in their original order
SortedAccounts(items) ==
    LET n == Len(items)
        before(i) == {j \in 1..n : items[j] > items[i] \/ (items[j] = items[i] /\ j < i)}
    IN  [k \in 1..n |-> CHOOSE i \in 1..n : Cardinality(before(i)) = k - 1]

\* the loop without its "selectedAccounts.length >= 4" break
RECURSIVE SelectLoopNoCeiling(_, _, _, _, _, _)
SelectLoopNoCeiling(items, sorted, k, selected, total, lamports) ==
    IF k > Len(sorted) THEN [selected |-> selected, total |-> total]
    ELSE LET selected2 == Append(selected, sorted[k])
             total2 == total + items[sorted[k]]
         IN  IF total2 >= lamports THEN [selected |-> selected2, total |-> total2]
             ELSE SelectLoopNoCeiling(items, sorted, k + 1, selected2, total2, lamports)

\* the loop breaking one account early (length >= 3)
RECURSIVE SelectLoopCeilingThree(_, _, _, _, _, _)
SelectLoopCeilingThree(items, sorted, k, selected, total, lamports) ==
    IF k > Len(sorted) THEN [selected |-> selected, total |-> total]
    ELSE LET selected2 == Append(selected, sorted[k])
             total2 == total + items[sorted[k]]
         IN  IF total2 >= lamports THEN [selected |-> selected2, total |-> total2]
             ELSE IF Len(selected2) >= MaxInputAccounts - 1
                  THEN [selected |-> selected2, total |-> total2]
             ELSE SelectLoopCeilingThree(items, sorted, k + 1, selected2, total2, lamports)

\* the for loop over sortedAccounts
RECURSIVE SelectLoop(_, _, _, _, _, _)
SelectLoop(items, sorted, k, selected, total, lamports) ==
    IF k > Len(sorted) THEN [selected |-> selected, total |-> total]
    ELSE LET selected2 == Append(selected, sorted[k])
             total2 == total + items[sorted[k]]
         IN  IF total2 >= lamports THEN [selected |-> selected2, total |-> total2]
             ELSE IF Len(selected2) >= MaxInputAccounts
                  THEN [selected |-> selected2, total |-> total2]
             ELSE SelectLoop(items, sorted, k + 1, selected2, total2, lamports)

SelectAccounts(items, lamports) ==
    SelectLoop(items, SortedAccounts(items), 1, <<>>, 0, lamports)

NoInstruction == [inputs |-> <<>>, to |-> "", lamports |-> 0]
Thrown(error) == [ok |-> FALSE, error |-> error, proof |-> <<>>, ix |-> NoInstruction]

\* a transfer whose instruction carries the selected total, not the amount
transferSendsSelectedTotal(items, recipient, lamportsAmount, rpc) ==
    IF Len(items) = 0 THEN Thrown(ErrNoCompressed)
    ELSE IF SumSeq(items) < lamportsAmount
         THEN Thrown(WithAmounts(ErrInsufficientCompressed, SumSeq(items), lamportsAmount))
    ELSE LET sel == SelectAccounts(items, lamportsAmount)
         IN  IF sel.total < lamportsAmount
             THEN Thrown(WithAmounts(ErrMaxInFourAccounts, lamportsAmount, sel.total))
             ELSE [ok |-> rpc = NoError, error |-> rpc, proof |-> sel.selected,
                   ix |-> [inputs |-> sel.selected, to |-> recipient,
                           lamports |-> sel.total]]

\* a transfer without the test for an empty account list
transferWithoutEmptyCheck(items, recipient, lamportsAmount, rpc) ==
    IF SumSeq(items) < lamportsAmount
    THEN Thrown(WithAmounts(ErrInsufficientCompressed, SumSeq(items), lamportsAmount))
    ELSE LET sel == SelectAccounts(items, lamportsAmount)
         IN  IF sel.total < lamportsAmount
             THEN Thrown(WithAmounts(ErrMaxInFourAccounts, lamportsAmount, sel.total))
             ELSE [ok |-> rpc = NoError, error |-> rpc, proof |-> sel.selected,
                   ix |-> [inputs |-> sel.selected, to |-> recipient,
                           lamports |-> lamportsAmount]]

\* a transfer that goes to the selection without comparing the total first
transferWithoutTotalCheck(items, recipient, lamportsAmount, rpc) ==
    IF Len(items) = 0 THEN Thrown(ErrNoCompressed)
    ELSE LET sel == SelectAccounts(items, lamportsAmount)
         IN  IF sel.total < lamportsAmount
             THEN Thrown(WithAmounts(ErrMaxInFourAccounts, lamportsAmount, sel.total))
             ELSE [ok |-> rpc = NoError, error |-> rpc, proof |-> sel.selected,
                   ix |-> [inputs |-> sel.selected, to |-> recipient,
                           lamports |-> lamportsAmount]]

\* transferCompressedSOL up to the signed transaction; rpc is what the
\* collaborators answer once the instruction is built
transferCompressedSOL(items, recipient, lamportsAmount, rpc) ==
    IF Len(items) = 0 THEN Thrown(ErrNoCompressed)
    ELSE IF SumSeq(items) < lamportsAmount
         THEN Thrown(WithAmounts(ErrInsufficientCompressed, SumSeq(items), lamportsAmount))
    ELSE LET sel == SelectAccounts(items, lamportsAmount)
         IN  IF sel.total < lamportsAmount
             THEN Thrown(WithAmounts(ErrMaxInFourAccounts, lamportsAmount, sel.total))
             ELSE [ok |-> rpc = NoError, error |-> rpc, proof |-> sel.selected,
                   ix |-> [inputs |-> sel.selected, to |-> recipient,
                           lamports |-> lamportsAmount]]

\* decompressSOL likewise; amountSOL is a double
decompressSOL(items, amountSOL, rpc) ==
    LET lamports == FFloor(FMul(amountSOL, LAMPORTS_PER_SOL))
        \* the lamports whose SOL text is the text of amountSOL
        typed == IF FDiv(lamports + 1, LAMPORTS_PER_SOL) = amountSOL
                 THEN lamports + 1 ELSE lamports
    IN  IF Len(items) = 0 THEN Thrown(ErrNothingToClaim)
        ELSE IF SumSeq(items) < lamports
             THEN Thrown(WithAmounts(ErrInsufficientCompressed, SumSeq(items), typed))
        ELSE LET sel == SelectAccounts(items, lamports)
             IN  IF sel.total < lamports
                 THEN Thrown(WithAmounts(ErrMaxInFourAccounts, typed, sel.total))
                 ELSE [ok |-> rpc = NoError, error |-> rpc, proof |-> sel.selected,
                       ix |-> [inputs |-> sel.selected, to |-> "public",
                               lamports |-> lamports]]

\* compressSOL: the lamports of the compress instruction
compressLamports(amountSOL) == FFloor(FMul(amountSOL, LAMPORTS_PER_SOL))

\* What an instruction does to the payer's account set once confirmed: the
\* inputs are consumed whole and the surplus comes back as one new account.
InputSum(items, ix) == SumSeq([k \in 1..Len(ix.inputs) |-> items[ix.inputs[k]]])
ChangeOf(items, ix) == InputSum(items, ix) - ix.lamports
AccountsAfter(items, ix) ==
    Without(items, Range(ix.inputs), 1)
        \o (IF ChangeOf(items, ix) > 0 THEN <<ChangeOf(items, ix)>> ELSE <<>>)

(***************************************************************************)
(* State.                                                                  *)
(***************************************************************************)
VARIABLES
    accounts,       \* the payer's compressed accounts (lamports), indexer order
    publicBalance,  \* the payer's wallet balance (lamports)
    settled,        \* the confirmed private transfers, oldest first
    hides,          \* the confirmed compress instructions, oldest first
    op,             \* the direct call of transferCompressedSOL / decompressSOL
    invoice,        \* the invoice record of the invoice page
    pay,            \* payInvoice: position and locals
    page,           \* the invoice page: what handlePayInvoice has done
    batch,          \* executeBatch: position and locals
    config,         \* the build's platform-fee settings
    flows           \* two transferCompressedSOL calls of one owner in flight

ledgerVars == <<accounts, publicBalance, settled, hides>>
payVars == <<invoice, pay, page>>
vars == <<accounts, publicBalance, settled, hides, op, invoice, pay, page, batch, config,
          flows>>

\* what the wallet of w has received privately
Credited(w) ==
    SumSeq([k \in 1..Len(settled) |-> IF settled[k].to = w THEN settled[k].lamports ELSE 0])

\* the chain confirms a built transfer or decompress instruction: the
\* program rejects inputs that do not cover the amount
Confirms(items, r) == r.ok /\ InputSum(items, r.ix) >= r.ix.lamports

SettledTransfer(items, r, by) ==
    [to |-> r.ix.to, lamports |-> r.ix.lamports, inputs |-> InputSum(items, r.ix),
     change |-> ChangeOf(items, r.ix), by |-> by]

(***************************************************************************)
(* SpecOps: one call of transferCompressedSOL or decompressSOL on an       *)
(* arbitrary account set.                                                  *)
(***************************************************************************)
AccountValues == {2, 3, 7}
Targets == 1..MaxTarget

NoOp == [kind |-> "none", items |-> <<>>, requested |-> 0, ok |-> FALSE,
         error |-> NoError, proof |-> <<>>, ix |-> NoInstruction]

OpRecord(kind, items, requested, r) ==
    [kind |-> kind, items |-> items, requested |-> requested,
     ok |-> Confirms(items, r),
     error |-> IF r.ok /\ ~Confirms(items, r) THEN ErrProgramRejected ELSE r.error,
     proof |-> r.proof, ix |-> r.ix]

\* Wallet address strings, by what the validators look at: the length of the
\* text, whether every character is in the base58 alphabet, and the number of
\* bytes the text decodes to.
Address(text, len, base58, bytes) ==
    [text |-> text, len |-> len, base58 |-> base58, bytes |-> bytes]
WalletA == Address("walletA", 44, TRUE, 32)
WalletB == Address("walletB", 43, TRUE, 32)
FeeWallet == Address("feeWallet", 44, TRUE, 32)
RegexOnlyWallet == Address("zzzz", 44, TRUE, 33)
MalformedWallet == Address("0xabc", 5, FALSE, 0)
EmptyWallet == Address("", 0, TRUE, 0)

\* /^[1-9A-HJ-NP-Za-km-z]{32,44}$/.test(address)
isValidPublicKey(w) == w.base58 /\ w.len >= 32 /\ w.len <= 44

\* new PublicKey(text) throws unless the text is base58 for 32 bytes
ErrInvalidPublicKey == PlainError("Invalid public key input", {"invalid"})
ErrNonBase58 == PlainError("Non-base58 character", {})
PublicKeyError(w) ==
    IF ~w.base58 THEN ErrNonBase58
    ELSE IF w.bytes # 32 THEN ErrInvalidPublicKey
    ELSE NoError

\* PLATFORM_FEE_ENABLED and PLATFORM_FEE_WALLET, read from the environment
NoFee == [feeEnabled |-> FALSE, feeWallet |-> EmptyWallet]
FeeToWallet == [feeEnabled |-> TRUE, feeWallet |-> FeeWallet]
FeeWithoutWallet == [feeEnabled |-> TRUE, feeWallet |-> EmptyWallet]

SENTO_FEE_PERCENTAGE == FDiv(5, 1000)
\* a fee rounded up to the next lamport
FeeOfRoundedUp(amount) == IF config.feeEnabled THEN (amount * 5 + 999) \div 1000 ELSE 0

\* Math.floor(invoice.amount * SENTO_FEE_PERCENTAGE)
FeeOf(amount) == IF config.feeEnabled THEN FFloor(FMul(SENTO_FEE_PERCENTAGE, amount)) ELSE 0

\* 0.01 * 1_000_000_000
FEE_RESERVE == FFloor(FMul(FDiv(1, 100), LAMPORTS_PER_SOL))

\* The auto top-up both hooks run when the compressed balance they read is
\* below the total: the lamports compressSOL puts in its instruction.
Shortfall(total, seen) == total - seen
\* the check without the reserve
TopUpRefusedIgnoringReserve(total, seen, walletBalance) ==
    walletBalance < Shortfall(total, seen)
TopUpRefused(total, seen, walletBalance) ==
    walletBalance < Shortfall(total, seen) + FEE_RESERVE
TopUpContext(total, seen, walletBalance) ==
    [walletBalance |-> FDiv(walletBalance, LAMPORTS_PER_SOL),
     needed |-> FDiv(Shortfall(total, seen) + FEE_RESERVE, LAMPORTS_PER_SOL)]
TopUpLamports(total, seen) ==
    compressLamports(FDiv(Shortfall(total, seen), LAMPORTS_PER_SOL))
NoContext == [walletBalance |-> FZero, needed |-> FZero]

HideRecord(by, total, seen, walletBalance, lamports) ==
    [by |-> by, required |-> total, current |-> seen,
     walletBalance |-> walletBalance, lamports |-> lamports]

\* a balance fetch that answers from the accounts even when the indexer fails
getCompressedBalanceUnfailing(items, indexerOk) == SumSeq(items)

\* getCompressedBalance: the sum of the accounts, or 0 when the indexer fails
getCompressedBalance(items, indexerOk) == IF indexerOk THEN SumSeq(items) ELSE 0

\* a top-up that also runs when the balance equals the total
NeedsTopUpWhenEqual(total, seen) == seen <= total

\* compressedBalance < amountLamports
NeedsTopUp(total, seen) == seen < total

\* What the second getCompressedBalance, two seconds after the Hide, answers:
\* the indexer has the new account, or has not caught up yet, or fails.
RefetchOutcomes == {"fresh", "stale", "error"}
Refetched(refetch, before, after) ==
    IF refetch = "fresh" THEN getCompressedBalance(after, TRUE)
    ELSE IF refetch = "stale" THEN getCompressedBalance(before, TRUE)
    ELSE getCompressedBalance(after, FALSE)

NoResult == [success |-> FALSE, signature |-> 0, error |-> ""]
PayIdle == [pc |-> "idle", fee |-> 0, total |-> 0, seen |-> 0, walletRead |-> FALSE,
            hid |-> FALSE, refetched |-> 0,
            transfers |-> 0, signature |-> 0, thrown |-> NoError,
            context |-> NoContext, result |-> NoResult]
PageIdle == [calls |-> 0, error |-> ""]
NoInvoice == [recipient |-> EmptyWallet, amount |-> 0, status |-> "none", txSignature |-> 0]
BatchIdle == [pc |-> "idle", input |-> <<>>, recipients |-> <<>>, total |-> 0, seen |-> 0,
              isProcessing |-> FALSE, walletRead |-> FALSE, hid |-> FALSE, refetched |-> 0, i |-> 0, attempts |-> 0, tried |-> <<>>, thrown |-> NoError,
              context |-> NoContext, status |-> "", invoices |-> <<>>,
              returned |-> "none"]

\* a call of transferCompressedSOL in flight: the account hashes it read,
\* the hashes it selected, and how it ended
FlowIdle == [pc |-> "idle", snapshot |-> <<>>, inputs |-> <<>>, amount |-> 0,
             ok |-> FALSE, error |-> NoError]
NoFlows == [f |-> <<FlowIdle, FlowIdle>>, hashes |-> <<>>, next |-> 1]

InitOps ==
    /\ flows = NoFlows
    /\ accounts \in SeqsUpTo(AccountValues, MaxAccounts)
    /\ publicBalance = 0
    /\ settled = <<>>
    /\ hides = <<>>
    /\ op = NoOp
    /\ invoice = NoInvoice
    /\ pay = PayIdle
    /\ page = PageIdle
    /\ batch = BatchIdle
    /\ config = NoFee

TransferOp(to, lamports, rpc) ==
    LET r == transferCompressedSOL(accounts, to, lamports, rpc)
    IN  /\ op.kind = "none"
        /\ op' = OpRecord("transfer", accounts, lamports, r)
        /\ IF Confirms(accounts, r)
           THEN /\ accounts' = AccountsAfter(accounts, r.ix)
                /\ settled' = Append(settled, SettledTransfer(accounts, r, "op"))
           ELSE UNCHANGED <<accounts, settled>>
        /\ UNCHANGED <<publicBalance, hides, invoice, pay, page, batch, config, flows>>

\* the amount typed into the claim form is nano * 10^-9 SOL
ClaimOp(nano, rpc) ==
    LET r == decompressSOL(accounts, FDiv(nano, LAMPORTS_PER_SOL), rpc)
    IN  /\ op.kind = "none"
        /\ op' = OpRecord("claim", accounts, nano, r)
        /\ IF Confirms(accounts, r)
           THEN /\ accounts' = AccountsAfter(accounts, r.ix)
                /\ publicBalance' = publicBalance + r.ix.lamports
           ELSE UNCHANGED <<accounts, publicBalance>>
        /\ UNCHANGED <<settled, hides, invoice, pay, page, batch, config, flows>>

OpOutcomes == {NoError, ErrQueueSimulation}

NextOps ==
    \/ \E lamports \in Targets, rpc \in OpOutcomes : TransferOp("walletA", lamports, rpc)
    \/ \E nano \in Targets, rpc \in OpOutcomes : ClaimOp(nano, rpc)

SpecOps == InitOps /\ [][NextOps]_vars

(***************************************************************************)
(* Claims about the selection (SpecOps).                                   *)
(***************************************************************************)
ValuesAt(items, positions) == [k \in 1..Len(positions) |-> items[positions[k]]]

\* the largest total that n accounts of items can reach
TopSum(items, n) ==
    LET sums == {SumSeq([k \in 1..Len(items) |-> IF k \in S THEN items[k] ELSE 0]) :
                    S \in {T \in SUBSET (1..Len(items)) : Cardinality(T) <= n}}
    IN  CHOOSE m \in sums : \A x \in sums : x <= m

\* C1: whatever the payer's accounts and the target, the accounts selected by
\* transferCompressedSOL and decompressSOL, which are the ones passed to the
\* validity-proof request and to the instruction, are never more than 4.
SelectionWithinCeiling ==
    op.kind \in {"transfer", "claim"} =>
        /\ Len(op.proof) <= 4
        /\ Len(op.ix.inputs) <= 4
        /\ op.ix.inputs \in {<<>>, op.proof}

CeilingReached ==
    /\ op.kind = "transfer"
    /\ op.ok
    /\ Len(op.items) > 4
    /\ Len(op.ix.inputs) = 4
    /\ SumSeq(ValuesAt(op.items, op.ix.inputs)) - op.items[op.ix.inputs[4]] < op.requested

\* C2: if the 4 largest accounts sum to the target or more, the selection
\* succeeds with a selected total >= the target; if all the accounts together
\* sum to less than the target, it fails.
SelectorSufficiency ==
    op.kind = "transfer" =>
        /\ TopSum(op.items, 4) >= op.requested =>
              /\ op.proof # <<>>
              /\ op.error \in OpOutcomes
              /\ SumSeq(ValuesAt(op.items, op.proof)) >= op.requested
        /\ SumSeq(op.items) < op.requested =>
              /\ op.proof = <<>>
              /\ ~op.ok
              /\ op.error \notin OpOutcomes

FourLargestJustSuffice ==
    /\ op.kind = "transfer"
    /\ Len(op.items) > 4
    /\ TopSum(op.items, 4) = op.requested
    /\ TopSum(op.items, 3) < op.requested
    /\ op.ok

\* C3: the selection is the shortest prefix of the accounts in descending
\* order of amount whose total reaches the target; accounts 7, 3, 2 and
\* target 9 select 7 and 3 (total 10) and 1 comes back to the sender as change.
ShortestDescendingPrefix ==
    (op.kind = "transfer" /\ op.proof # <<>>) =>
        LET sel == op.ix.inputs
            vals == ValuesAt(op.items, sel)
        IN  /\ \A j, k \in 1..Len(sel) : j < k => sel[j] # sel[k] /\ vals[j] >= vals[k]
            /\ \A i \in 1..Len(op.items) : i \notin Range(sel) => op.items[i] <= vals[Len(sel)]
            /\ SumSeq(vals) >= op.requested
            /\ SumSeq(vals) - vals[Len(sel)] < op.requested
            /\ (op.items = <<7, 3, 2>> /\ op.requested = 9) =>
                  /\ vals = <<7, 3>>
                  /\ op.ok => accounts = <<2, 1>> /\ settled[Len(settled)].change = 1

SevenThreeTwoTargetNine ==
    /\ op.kind = "transfer"
    /\ op.items = <<7, 3, 2>>
    /\ op.requested = 9
    /\ op.ok

\* C4: a confirmed transfer of amount A consuming the selected inputs S has
\* sum(S) = A + change; the recipient receives A and the sender keeps the
\* rest, so sender plus recipient hold what the sender held before.
TransferConserves ==
    (op.kind = "transfer" /\ op.ok) =>
        LET e == settled[Len(settled)]
        IN  /\ e.inputs = op.requested + e.change
            /\ e.change >= 0
            /\ Credited(e.to) = op.requested
            /\ SumSeq(accounts) + Credited(e.to) = SumSeq(op.items)

TransferWithChange ==
    /\ op.kind = "transfer"
    /\ op.ok
    /\ settled[Len(settled)].change > 0
    /\ Len(op.ix.inputs) > 1

(***************************************************************************)
(* Spec: a session on the invoice page (handlePayInvoice, payInvoice) or   *)
(* on the batch page (executeBatch), one action per await point.  Network  *)
(* fees of the signed transactions are not modelled.                       *)
(***************************************************************************)
MaxPayCalls == 2
MaxRecipients == 2

InvoiceAmounts == {1000, 1999, 2000}
\* CreateInvoiceTab accepts any recipient that passes isValidPublicKey
InvoiceRecipients == {WalletA, RegexOnlyWallet}
InitialAccounts == {<<>>, <<25>>, <<600, 500>>}
PublicBalances == {3, FEE_RESERVE + 1004, FEE_RESERVE + 300000}
PayOutcomes == {NoError, ErrQueueSimulation, ErrUserRejected}

Init ==
    /\ flows = NoFlows
    /\ accounts \in InitialAccounts
    /\ publicBalance \in PublicBalances
    /\ settled = <<>>
    /\ hides = <<>>
    /\ op = NoOp
    /\ pay = PayIdle
    /\ page = PageIdle
    /\ batch = BatchIdle
    /\ \/ /\ invoice \in {[recipient |-> w, amount |-> a, status |-> "unpaid",
                            txSignature |-> 0] : w \in InvoiceRecipients, a \in InvoiceAmounts}
          /\ config \in {NoFee, FeeToWallet, FeeWithoutWallet}
       \/ /\ invoice = NoInvoice
          /\ config = FeeToWallet

\* a catch block that swallows the error and goes on to the transfers
PayCaughtThenContinues(p, error, context) ==
    [p EXCEPT !.pc = "amount", !.thrown = error, !.context = context]

\* a catch block that returns success with whatever signature there is
PayCaughtReportsSuccess(p, error, context) ==
    [p EXCEPT !.pc = "returned", !.thrown = error, !.context = context,
              !.result = [success |-> TRUE, signature |-> p.signature, error |-> ""]]

\* the catch block of payInvoice
PayCaught(p, error, context) ==
    [p EXCEPT !.pc = "returned", !.thrown = error, !.context = context,
              !.result = [success |-> FALSE, signature |-> 0, error |-> parseError(error)]]

\* The Pay button: handlePayInvoice calls payInvoice, which runs up to the
\* answer of its first getCompressedBalance.
HandlePayInvoice(indexerOk) ==
    /\ pay.pc = "idle"
    /\ batch.pc = "idle"
    /\ invoice.status = "unpaid"
    /\ page.calls < MaxPayCalls
    /\ page' = [calls |-> page.calls + 1, error |-> ""]
    /\ LET fee == FeeOf(invoice.amount)
           started == [PayIdle EXCEPT !.fee = fee, !.total = invoice.amount + fee]
       IN  pay' = IF PublicKeyError(invoice.recipient) # NoError
                  THEN PayCaught(started, PublicKeyError(invoice.recipient), NoContext)
                  ELSE [started EXCEPT !.pc = "balance",
                                       !.seen = getCompressedBalance(accounts, indexerOk)]
    /\ UNCHANGED <<ledgerVars, op, invoice, batch, config, flows>>

\* compressedBalance >= amountLamports: no top-up
PayNoTopUp ==
    /\ pay.pc = "balance"
    /\ ~NeedsTopUp(pay.total, pay.seen)
    /\ pay' = [pay EXCEPT !.pc = "amount"]
    /\ UNCHANGED <<ledgerVars, op, invoice, page, batch, config, flows>>

\* walletBalance < totalNeeded
PayTopUpRefused ==
    /\ pay.pc = "balance"
    /\ NeedsTopUp(pay.total, pay.seen)
    /\ TopUpRefused(pay.total, pay.seen, publicBalance)
    /\ pay' = PayCaught([pay EXCEPT !.walletRead = TRUE], SentoError("INSUFFICIENT_BALANCE"),
                        TopUpContext(pay.total, pay.seen, publicBalance))
    /\ UNCHANGED <<ledgerVars, op, invoice, page, batch, config, flows>>

\* a hook that compares the refreshed balance with the total and gives up
\* when it is still below
PayAfterTopUpRechecks(p, refetched) ==
    IF refetched < p.total
    THEN PayCaught([p EXCEPT !.hid = TRUE, !.refetched = refetched],
                   SentoError("INSUFFICIENT_COMPRESSED_BALANCE"), NoContext)
    ELSE [p EXCEPT !.pc = "amount", !.hid = TRUE, !.refetched = refetched]

\* after lpCompressSOL: the wait, the refreshed balance (logged only), and on
\* to the fee wallet and the transfers
PayAfterTopUp(p, refetched) ==
    [p EXCEPT !.pc = "amount", !.hid = TRUE, !.refetched = refetched]

\* connection.getBalance, then lpCompressSOL(publicKey, amountToCompressSOL,
\* signTransaction) and the second getCompressedBalance
PayTopUp(rpc, refetch) ==
    /\ pay.pc = "balance"
    /\ NeedsTopUp(pay.total, pay.seen)
    /\ ~TopUpRefused(pay.total, pay.seen, publicBalance)
    /\ LET lamports == TopUpLamports(pay.total, pay.seen)
           asked == [pay EXCEPT !.walletRead = TRUE]
           after == Append(accounts, lamports)
       IN  IF rpc = NoError
           THEN /\ publicBalance' = publicBalance - lamports
                /\ accounts' = after
                /\ hides' = Append(hides, HideRecord("pay", pay.total, pay.seen,
                                                     publicBalance, lamports))
                /\ pay' = PayAfterTopUp(asked, Refetched(refetch, accounts, after))
           ELSE /\ pay' = PayCaught(asked, rpc, NoContext)
                /\ UNCHANGED <<accounts, publicBalance, hides>>
    /\ UNCHANGED <<settled, op, invoice, page, batch, config, flows>>

\* feeLamports > 0 and PLATFORM_FEE_WALLET empty or not matching the pattern,
\* or new PublicKey(PLATFORM_FEE_WALLET) throwing
FeeWalletError ==
    IF pay.fee = 0 THEN NoError
    ELSE IF config.feeWallet.len = 0 \/ ~isValidPublicKey(config.feeWallet)
         THEN SentoError("INVALID_ADDRESS")
    ELSE PublicKeyError(config.feeWallet)

PayFeeWalletInvalid ==
    /\ pay.pc = "amount"
    /\ FeeWalletError # NoError
    /\ pay' = PayCaught(pay, FeeWalletError, NoContext)
    /\ UNCHANGED <<ledgerVars, op, invoice, page, batch, config, flows>>

\* the amount leg: transferCompressedSOL(publicKey, recipientPubkey, invoice.amount, ...)
PayAmountLeg(rpc) ==
    /\ pay.pc = "amount"
    /\ FeeWalletError = NoError
    /\ LET r == transferCompressedSOL(accounts, invoice.recipient.text, invoice.amount, rpc)
           called == [pay EXCEPT !.transfers = @ + 1]
       IN  IF Confirms(accounts, r)
           THEN /\ accounts' = AccountsAfter(accounts, r.ix)
                /\ settled' = Append(settled, SettledTransfer(accounts, r, "payAmount"))
                /\ pay' = IF pay.fee > 0
                          THEN [called EXCEPT !.pc = "fee", !.signature = Len(settled) + 1]
                          ELSE [called EXCEPT !.pc = "returned",
                                              !.signature = Len(settled) + 1,
                                              !.result = [success |-> TRUE,
                                                          signature |-> Len(settled) + 1,
                                                          error |-> ""]]
           ELSE /\ pay' = PayCaught(called, r.error, NoContext)
                /\ UNCHANGED <<accounts, settled>>
    /\ UNCHANGED <<publicBalance, hides, op, invoice, page, batch, config, flows>>

\* the fee leg: transferCompressedSOL(publicKey, feeRecipient, feeLamports, ...)
PayFeeLeg(rpc) ==
    /\ pay.pc = "fee"
    /\ LET r == transferCompressedSOL(accounts, config.feeWallet.text, pay.fee, rpc)
           called == [pay EXCEPT !.transfers = @ + 1]
       IN  IF Confirms(accounts, r)
           THEN /\ accounts' = AccountsAfter(accounts, r.ix)
                /\ settled' = Append(settled, SettledTransfer(accounts, r, "payFee"))
                /\ pay' = [called EXCEPT !.pc = "returned",
                                         !.result = [success |-> TRUE,
                                                     signature |-> pay.signature,
                                                     error |-> ""]]
           ELSE /\ pay' = PayCaught(called, r.error, NoContext)
                /\ UNCHANGED <<accounts, settled>>
    /\ UNCHANGED <<publicBalance, hides, op, invoice, page, batch, config, flows>>

\* handlePayInvoice after payInvoice has returned
HandlePayResult ==
    /\ pay.pc = "returned"
    /\ IF pay.result.success /\ pay.result.signature # 0
       THEN /\ invoice' = [invoice EXCEPT !.status = "paid",
                                          !.txSignature = pay.result.signature]
            /\ page' = page
       ELSE /\ page' = [page EXCEPT !.error = pay.result.error]
            /\ invoice' = invoice
    /\ pay' = PayIdle
    /\ UNCHANGED <<ledgerVars, op, batch, config, flows>>

NextPay ==
    \/ \E indexerOk \in BOOLEAN : HandlePayInvoice(indexerOk)
    \/ PayNoTopUp
    \/ PayTopUpRefused
    \/ \E rpc \in PayOutcomes, refetch \in RefetchOutcomes : PayTopUp(rpc, refetch)
    \/ PayFeeWalletInvalid
    \/ \E rpc \in PayOutcomes : PayAmountLeg(rpc)
    \/ \E rpc \in PayOutcomes : PayFeeLeg(rpc)
    \/ HandlePayResult

(***************************************************************************)
(* executeBatch                                                            *)
(***************************************************************************)
RecipientInputs ==
    {[wallet |-> WalletA, amount |-> 10], [wallet |-> WalletB, amount |-> 15],
     [wallet |-> WalletB, amount |-> 259002],
     [wallet |-> WalletA, amount |-> 0], [wallet |-> MalformedWallet, amount |-> 10],
     [wallet |-> RegexOnlyWallet, amount |-> 10]}
BatchOutcomes == {NoError, ErrQueueSimulation, ErrQueueBare, ErrUserRejected}
MaxAttempts == 3

\* an outer catch block with no finally after it
BatchCaughtWithoutFinally(b, error, context) ==
    [b EXCEPT !.pc = "done", !.thrown = error, !.context = context, !.returned = "null"]

\* the outer catch block of executeBatch and its finally
BatchCaught(b, error, context) ==
    [b EXCEPT !.pc = "done", !.thrown = error, !.context = context, !.returned = "null",
              !.isProcessing = FALSE]

\* a validation that removes the rejected entries in place while it walks the
\* list, so that the entry after a removed one is never looked at
RECURSIVE SanitizedInPlace(_)
SanitizedInPlace(input) ==
    IF input = <<>> THEN <<>>
    ELSE IF input[1].amount > 0 /\ isValidPublicKey(input[1].wallet)
         THEN <<input[1]>> \o SanitizedInPlace(Tail(input))
    ELSE IF Len(input) = 1 THEN <<>>
    ELSE <<input[2]>> \o SanitizedInPlace(Tail(Tail(input)))

\* recipients.filter(r => r.amount > 0 && isValidPublicKey(r.wallet))
Sanitized(input) == SelectSeq(input, LAMBDA r : r.amount > 0 /\ isValidPublicKey(r.wallet))

\* sanitizedRecipients.map(...): every recipient pending
Pending(r) == [wallet |-> r.wallet, amount |-> r.amount, status |-> "pending",
               txSignature |-> 0, error |-> ""]

\* the Pay button of the batch page: executeBatch up to the answer of its
\* first getCompressedBalance
ExecuteBatch(input, indexerOk) ==
    /\ batch.pc = "idle"
    /\ pay.pc = "idle"
    /\ invoice = NoInvoice
    /\ LET sanitized == Sanitized(input)
           total == SumSeq([k \in 1..Len(sanitized) |-> sanitized[k].amount])
           called == [batch EXCEPT !.input = input, !.isProcessing = TRUE]
       IN  batch' = IF Len(sanitized) = 0
                    THEN BatchCaught(called, SentoError("INVALID_ADDRESS"), NoContext)
                    ELSE [called EXCEPT !.pc = "balance",
                                       !.recipients = sanitized,
                                       !.total = total,
                                       !.seen = getCompressedBalance(accounts, indexerOk)]
    /\ UNCHANGED <<ledgerVars, op, payVars, config, flows>>

\* a check for the wrong error code
isQueueIssueWrongCode(error) == "0x232b" \in error.has \/ "9003" \in error.has

\* errorStr.includes('0x232a') || errorStr.includes('9002')
isQueueIssue(error) == "0x232a" \in error.has \/ "9002" \in error.has

\* what the while loop has done for a recipient: the calls of
\* transferCompressedSOL and how many of them the chain answered with its
\* queue-congestion error
QueueCongestion == {ErrQueueSimulation, ErrQueueBare}
NotTried == [attempts |-> 0, queue |-> 0, other |-> 0]
Tried(t, error) ==
    [attempts |-> t.attempts + 1,
     queue |-> t.queue + (IF error \in QueueCongestion THEN 1 ELSE 0),
     other |-> t.other + (IF error \notin QueueCongestion \cup {NoError} THEN 1 ELSE 0)]

\* a loop that starts from the last recipient
BatchLoopFromLast(b) ==
    [b EXCEPT !.pc = "loop", !.i = Len(b.recipients), !.attempts = 0,
              !.recipients = [k \in 1..Len(b.recipients) |-> Pending(b.recipients[k])],
              !.tried = [k \in 1..Len(b.recipients) |-> NotTried]]

\* entering the for loop over batchRecipients
BatchLoop(b) ==
    [b EXCEPT !.pc = "loop", !.i = 1, !.attempts = 0,
              !.recipients = [k \in 1..Len(b.recipients) |-> Pending(b.recipients[k])],
              !.tried = [k \in 1..Len(b.recipients) |-> NotTried]]

BatchNoTopUp ==
    /\ batch.pc = "balance"
    /\ ~NeedsTopUp(batch.total, batch.seen)
    /\ batch' = BatchLoop(batch)
    /\ UNCHANGED <<ledgerVars, op, payVars, config, flows>>

BatchTopUpRefused ==
    /\ batch.pc = "balance"
    /\ NeedsTopUp(batch.total, batch.seen)
    /\ TopUpRefused(batch.total, batch.seen, publicBalance)
    /\ batch' = BatchCaught([batch EXCEPT !.walletRead = TRUE],
                            SentoError("INSUFFICIENT_BALANCE"),
                            TopUpContext(batch.total, batch.seen, publicBalance))
    /\ UNCHANGED <<ledgerVars, op, payVars, config, flows>>

\* after lpCompressSOL: the wait, the refreshed balance (not used again), and
\* on to the loop
BatchAfterTopUp(b, refetched) ==
    BatchLoop([b EXCEPT !.hid = TRUE, !.refetched = refetched])

BatchTopUp(rpc, refetch) ==
    /\ batch.pc = "balance"
    /\ NeedsTopUp(batch.total, batch.seen)
    /\ ~TopUpRefused(batch.total, batch.seen, publicBalance)
    /\ LET lamports == TopUpLamports(batch.total, batch.seen)
           asked == [batch EXCEPT !.walletRead = TRUE]
           after == Append(accounts, lamports)
       IN  IF rpc = NoError
           THEN /\ publicBalance' = publicBalance - lamports
                /\ accounts' = after
                /\ hides' = Append(hides, HideRecord("batch", batch.total, batch.seen,
                                                     publicBalance, lamports))
                /\ batch' = BatchAfterTopUp(asked, Refetched(refetch, accounts, after))
           ELSE /\ batch' = BatchCaught(asked, rpc, NoContext)
                /\ UNCHANGED <<accounts, publicBalance, hides>>
    /\ UNCHANGED <<settled, op, payVars, config, flows>>

\* a per-recipient catch block that leaves the loop
RecipientFailedStopsBatch(b, error) ==
    [b EXCEPT !.recipients[b.i].status = "failed",
              !.recipients[b.i].error = parseError(error),
              !.i = Len(b.recipients) + 1, !.attempts = 0]

\* the per-recipient catch block: failed, with parseError's message
RecipientFailed(b, error) ==
    [b EXCEPT !.recipients[b.i].status = "failed",
              !.recipients[b.i].error = parseError(error),
              !.i = @ + 1, !.attempts = 0]

\* new PublicKey(recipient.wallet) throws before the retry loop
BatchBadKey ==
    /\ batch.pc = "loop"
    /\ batch.i <= Len(batch.recipients)
    /\ PublicKeyError(batch.recipients[batch.i].wallet) # NoError
    /\ batch' = RecipientFailed(batch, PublicKeyError(batch.recipients[batch.i].wallet))
    /\ UNCHANGED <<ledgerVars, op, payVars, config, flows>>

\* one iteration of the while loop: one transferCompressedSOL
BatchTransfer(rpc) ==
    /\ batch.pc = "loop"
    /\ batch.i <= Len(batch.recipients)
    /\ PublicKeyError(batch.recipients[batch.i].wallet) = NoError
    /\ batch.attempts < MaxAttempts
    /\ LET recipient == batch.recipients[batch.i]
           r == transferCompressedSOL(accounts, recipient.wallet.text, recipient.amount, rpc)
           error == IF r.ok THEN ErrProgramRejected ELSE r.error
           attempts == batch.attempts + 1
       IN  IF Confirms(accounts, r)
           THEN /\ accounts' = AccountsAfter(accounts, r.ix)
                /\ settled' = Append(settled, SettledTransfer(accounts, r, "batch"))
                /\ batch' = [batch EXCEPT !.recipients[batch.i].status = "paid",
                                          !.recipients[batch.i].txSignature = Len(settled) + 1,
                                          !.tried[batch.i] = Tried(@, NoError),
                                          !.i = @ + 1, !.attempts = 0]
           ELSE /\ batch' = IF isQueueIssue(error) /\ attempts < MaxAttempts
                            THEN [batch EXCEPT !.attempts = attempts,
                                               !.tried[batch.i] = Tried(@, error)]
                            ELSE RecipientFailed(
                                     [batch EXCEPT !.tried[batch.i] = Tried(@, error)], error)
                /\ UNCHANGED <<accounts, settled>>
    /\ UNCHANGED <<publicBalance, hides, op, payVars, config, flows>>

\* a derivation that calls a batch completed as soon as one recipient is paid
BatchStatusAnyPaidCompletes(recipients) ==
    IF \E k \in 1..Len(recipients) : recipients[k].status = "paid" THEN "completed"
    ELSE "failed"

BatchStatus(recipients) ==
    IF \A k \in 1..Len(recipients) : recipients[k].status = "paid" THEN "completed"
    ELSE IF \E k \in 1..Len(recipients) : recipients[k].status = "paid" THEN "partial"
    ELSE "failed"

\* localStorage.setItem / JSON.parse throwing inside saveBatchPayment
ErrStorage == PlainError("Failed to execute 'setItem' on 'Storage'", {"storage"})

\* the invoice object built for a paid recipient and passed to saveInvoice
PaidInvoice(recipient) ==
    [recipient |-> recipient.wallet, amount |-> recipient.amount, status |-> "paid",
     txSignature |-> recipient.txSignature]

\* after the loop: the status, saveBatchPayment, one saveInvoice per paid
\* recipient (its failure is swallowed), and the batch record returned
BatchFinish(storageOk) ==
    /\ batch.pc = "loop"
    /\ batch.i > Len(batch.recipients)
    /\ LET built == [batch EXCEPT !.status = BatchStatus(batch.recipients)]
           paid == SelectSeq(batch.recipients, LAMBDA r : r.status = "paid")
       IN  batch' = IF storageOk
                    THEN [built EXCEPT !.pc = "done", !.returned = "batch",
                                       !.isProcessing = FALSE,
                                       !.invoices = [k \in 1..Len(paid) |-> PaidInvoice(paid[k])]]
                    ELSE BatchCaught(built, ErrStorage, NoContext)
    /\ UNCHANGED <<ledgerVars, op, payVars, config, flows>>

NextBatch ==
    \/ \E input \in SeqsUpTo(RecipientInputs, MaxRecipients), indexerOk \in BOOLEAN :
           ExecuteBatch(input, indexerOk)
    \/ BatchNoTopUp
    \/ BatchTopUpRefused
    \/ \E rpc \in PayOutcomes, refetch \in RefetchOutcomes : BatchTopUp(rpc, refetch)
    \/ BatchBadKey
    \/ \E rpc \in BatchOutcomes : BatchTransfer(rpc)
    \/ \E storageOk \in BOOLEAN : BatchFinish(storageOk)

Next == NextPay \/ NextBatch

Spec == Init /\ [][Next]_vars

\* every call awaited inside the recipient loop of executeBatch returns, and
\* so does saveBatchPayment after it
BatchLoopStep ==
    \/ BatchBadKey
    \/ \E rpc \in BatchOutcomes : BatchTransfer(rpc)
    \/ \E storageOk \in BOOLEAN : BatchFinish(storageOk)

FairSpec == Spec /\ WF_vars(BatchLoopStep)

(***************************************************************************)
(* Claims about payInvoice and executeBatch (Spec).                        *)
(***************************************************************************)
InsufficientBalance == SentoError("INSUFFICIENT_BALANCE")
AmountLegs == {k \in 1..Len(settled) : settled[k].by = "payAmount"}

\* C5: whenever payInvoice or executeBatch reads a private balance below
\* the required amount and issues a Hide, the lamports hidden are exactly
\* required - current, never more and never less.
TopUpHidesExactShortfall ==
    \A k \in 1..Len(hides) : hides[k].lamports = hides[k].required - hides[k].current

\* C6: the step that leaves the top-up of payInvoice or executeBatch issues a
\* Hide only when publicBalance >= shortfall + FEE_RESERVE; when
\* publicBalance < shortfall + FEE_RESERVE it throws INSUFFICIENT_BALANCE
\* carrying the wallet balance and the needed total, and hides nothing.
TopUpStep(f, g) ==
    (f.pc = "balance" /\ g.pc # "balance" /\ f.seen < f.total) =>
        IF publicBalance >= (f.total - f.seen) + 10000000
        THEN /\ g.thrown # InsufficientBalance
             /\ \/ Len(hides') = Len(hides) + 1 /\ g.hid
                \/ hides' = hides /\ g.thrown \in RpcErrors
        ELSE /\ g.thrown = InsufficientBalance
             /\ g.context = [walletBalance |-> FDiv(publicBalance, LAMPORTS_PER_SOL),
                             needed |-> FDiv((f.total - f.seen) + 10000000,
                                             LAMPORTS_PER_SOL)]
             /\ ~g.hid
             /\ UNCHANGED ledgerVars

HideOnlyWhenAffordable ==
    [][/\ TopUpStep(pay, pay')
       /\ TopUpStep(batch, batch')
       /\ hides' # hides =>
              \E f \in {pay, batch} :
                  /\ f.pc = "balance"
                  /\ f.seen < f.total
                  /\ publicBalance >= (f.total - f.seen) + 10000000]_vars

RefusedOneLamportShort ==
    /\ pay.thrown = InsufficientBalance
    /\ pay.total - pay.seen = 1005
    /\ publicBalance = 10000000 + 1004
    /\ hides = <<>>

\* C7: a top-up refused for insufficient balance aborts the operation before
\* any transfer: payInvoice has returned a failure having called
\* transferCompressedSOL zero times, and executeBatch has returned null
\* without entering the loop over the recipients.
InsufficiencyAbortsBeforeTransfers ==
    /\ pay.thrown = InsufficientBalance =>
           /\ pay.pc = "returned"
           /\ ~pay.result.success
           /\ pay.result.error = "INSUFFICIENT_BALANCE"
           /\ pay.transfers = 0
           /\ pay.signature = 0
    /\ batch.thrown = InsufficientBalance =>
           /\ batch.pc = "done"
           /\ batch.returned = "null"
           /\ batch.i = 0
           /\ batch.tried = <<>>
           /\ settled = <<>>

BatchAbortedWithNoAttempt ==
    /\ batch.thrown = InsufficientBalance
    /\ Len(batch.recipients) = 2
    /\ batch.total = 30
    /\ SumSeq(accounts) = 25
    /\ publicBalance = 3

\* C8: over any sequence of pay attempts on an invoice (payInvoice followed
\* by handlePayInvoice's reconciliation), the amount leg to the invoice's
\* recipient settles at most once, and once it has settled and the attempt
\* has been reconciled the invoice is recorded as paid.
AmountLegSettlesAtMostOnce ==
    /\ Cardinality(AmountLegs) <= 1
    /\ (AmountLegs # {} /\ pay.pc = "idle") => invoice.status = "paid"

\* C9: when the fee leg of payInvoice fails after the amount leg succeeded,
\* payInvoice returns a failure carrying the error's message, and the
\* settled amount leg stays the last transfer: the recipient keeps the
\* amount and nothing is sent to reverse it.
FeeLegFailureReportedNotRolledBack ==
    (pay.pc = "returned" /\ pay.signature # 0 /\ pay.thrown # NoError) =>
        /\ ~pay.result.success
        /\ pay.result.error = parseError(pay.thrown)
        /\ pay.result.error # ""
        /\ Len(settled) = pay.signature
        /\ settled[pay.signature].by = "payAmount"
        /\ settled[pay.signature].to = invoice.recipient.text
        /\ settled[pay.signature].lamports = invoice.amount
        /\ Credited(invoice.recipient.text) >= invoice.amount
        /\ \A k \in 1..Len(settled) : settled[k].to \in {WalletA.text, FeeWallet.text}

FeeLegFailedAfterAmountLeg ==
    /\ pay.pc = "returned"
    /\ pay.signature # 0
    /\ pay.transfers = 2
    /\ pay.thrown = ErrQueueSimulation
    /\ Credited(invoice.recipient.text) = invoice.amount

\* C10: a batch recipient whose every call of transferCompressedSOL throws a
\* queue issue (0x232a) gets exactly 3 calls and ends failed, and the reason
\* recorded is the message parseError gives the last error: the one of
\* TRANSACTION_FAILED or of UNKNOWN_ERROR.
AllQueueIssues(k) ==
    /\ batch.tried[k].attempts > 0
    /\ batch.tried[k].queue = batch.tried[k].attempts
    /\ (k < batch.i \/ batch.pc = "done")

OtherFailureIsTerminal ==
    \A k \in 1..Len(batch.tried) :
        batch.tried[k].other > 0 =>
            /\ batch.recipients[k].status = "failed"
            /\ batch.tried[k].other = 1
            /\ batch.tried[k].attempts = batch.tried[k].queue + 1

PaidCount(recipients) == Cardinality({k \in 1..Len(recipients) : recipients[k].status = "paid"})
Outcomes(statuses) == [k \in 1..Len(statuses) |-> [status |-> statuses[k]]]

\* C12: the batch executeBatch returns is completed iff every recipient is
\* paid, partial iff some but not all are paid, failed iff none is paid, and
\* never pending; [paid, failed, paid] gives partial, [paid, paid] completed,
\* [failed, failed] failed.
BatchStatusDerivation ==
    /\ batch.returned = "batch" =>
           LET n == Len(batch.recipients)
               paid == PaidCount(batch.recipients)
           IN  /\ n > 0
               /\ batch.status \in {"completed", "partial", "failed"}
               /\ batch.status = "completed" <=> paid = n
               /\ batch.status = "partial" <=> (0 < paid /\ paid < n)
               /\ batch.status = "failed" <=> paid = 0
               /\ \A k \in 1..n : batch.recipients[k].status \in {"paid", "failed"}
    /\ BatchStatus(Outcomes(<<"paid", "failed", "paid">>)) = "partial"
    /\ BatchStatus(Outcomes(<<"paid", "paid">>)) = "completed"
    /\ BatchStatus(Outcomes(<<"failed", "failed">>)) = "failed"

PartialBatchReturned ==
    /\ batch.returned = "batch"
    /\ batch.status = "partial"
    /\ batch.recipients[1].status = "failed"
    /\ batch.recipients[2].status = "paid"

\* C13: a batch recipient goes pending -> paid, pending -> failed, or stays
\* pending after an attempt only when that attempt failed with queue
\* congestion and fewer than 3 attempts have been made; paid and failed are
\* absorbing, no transfer is submitted for a paid or failed recipient, and
\* the attempts never exceed 3.
RecipientStep(k) ==
    LET before == batch.recipients[k].status
        after == batch'.recipients[k].status
        attempted == batch'.tried[k] # batch.tried[k]
    IN  /\ before \in {"paid", "failed"} => after = before /\ ~attempted
        /\ before = "pending" => after \in {"pending", "paid", "failed"}
        /\ (before = "pending" /\ after = "pending" /\ attempted) =>
               /\ batch'.tried[k].queue = batch.tried[k].queue + 1
               /\ batch'.tried[k].attempts < 3
        /\ batch'.tried[k].attempts <= 3

RecipientStateMachine ==
    [][batch.pc = "loop" =>
           /\ Len(batch'.recipients) = Len(batch.recipients)
           /\ \A k \in 1..Len(batch.recipients) : RecipientStep(k)]_vars

TotalAttempts(b) == SumSeq([k \in 1..Len(b.tried) |-> b.tried[k].attempts])

\* C14: within one executeBatch run the recipients are processed one at a
\* time in request order: a step submits at most one transfer, for the
\* current recipient only; every earlier recipient is already paid or
\* failed and no later recipient has been attempted.
InRequestOrder(b) ==
    b.pc = "loop" =>
        /\ Len(b.recipients) = Len(Sanitized(b.input))
        /\ \A k \in 1..Len(b.recipients) :
               /\ b.recipients[k].wallet = Sanitized(b.input)[k].wallet
               /\ b.recipients[k].amount = Sanitized(b.input)[k].amount
               /\ k < b.i => b.recipients[k].status \in {"paid", "failed"}
               /\ k >= b.i => b.recipients[k].status = "pending"
               /\ k > b.i => b.tried[k] = NotTried

OneRecipientAtATime ==
    [][/\ InRequestOrder(batch')
       /\ batch.pc = "loop" =>
              /\ TotalAttempts(batch') <= TotalAttempts(batch) + 1
              /\ Len(settled') <= Len(settled) + 1
              /\ \A k \in 1..Len(batch.tried) :
                     batch'.tried[k] # batch.tried[k] => k = batch.i]_vars

SecondRecipientAfterFirstFailed ==
    /\ batch.pc = "loop"
    /\ Len(batch.recipients) = 2
    /\ batch.i = 2
    /\ batch.recipients[1].status = "failed"
    /\ batch.tried[1].attempts = 3
    /\ batch.tried[2].attempts = 1

\* C15: when an executeBatch run has ended, every recipient whose transfer
\* succeeded has a paid invoice record with its wallet, amount and
\* signature submitted to the invoice store; a failed recipient has none and
\* its failure reason is kept in the returned outcome.
ReconciliationForEveryPaidRecipient ==
    (batch.pc = "done" /\ batch.i > 0) =>
        /\ Len(batch.invoices) = PaidCount(batch.recipients)
        /\ \A k \in 1..Len(batch.recipients) :
               /\ batch.recipients[k].status = "paid" =>
                      \E j \in 1..Len(batch.invoices) :
                          batch.invoices[j] = PaidInvoice(batch.recipients[k])
               /\ batch.recipients[k].status = "failed" =>
                      /\ batch.recipients[k].error # ""
                      /\ batch.returned = "batch"

\* C16: when payInvoice or executeBatch ends in a validation error (a malformed
\* recipient or fee-wallet identity, a non-positive amount), it does so from
\* its first position, before the balance fetch, and nothing has been hidden
\* or submitted.
ValidationError(error) ==
    error \in {SentoError("INVALID_ADDRESS"), SentoError("INVALID_AMOUNT"),
               ErrInvalidPublicKey, ErrNonBase58}

ValidationRejectedBeforeNetwork ==
    [][/\ (pay.pc # "returned" /\ pay'.pc = "returned" /\ ValidationError(pay'.thrown)) =>
             /\ pay.pc = "idle"
             /\ ~pay'.hid
             /\ pay'.transfers = 0
             /\ ledgerVars' = ledgerVars
       /\ (batch.pc # "done" /\ batch'.pc = "done" /\ ValidationError(batch'.thrown)) =>
             /\ batch.pc = "idle"
             /\ ~batch'.hid
             /\ batch'.i = 0
             /\ ledgerVars' = ledgerVars]_vars

\* C17: the batch validation is idempotent: validating the input of an
\* executeBatch call once more gives the accepted list the call worked on, in
\* the same order, and so the same rejected entries; every accepted entry has
\* amount > 0 and a well-formed wallet, and validating the accepted list
\* rejects nothing.
SameEntries(a, b) ==
    /\ Len(a) = Len(b)
    /\ \A k \in 1..Len(a) : a[k].wallet = b[k].wallet /\ a[k].amount = b[k].amount

ValidationIdempotent ==
    batch.pc # "idle" =>
        LET accepted == Sanitized(batch.input)
        IN  /\ Sanitized(accepted) = accepted
            /\ \A k \in 1..Len(accepted) :
                   accepted[k].amount > 0 /\ isValidPublicKey(accepted[k].wallet)
            /\ SameEntries(batch.recipients, accepted)
            /\ batch.thrown = SentoError("INVALID_ADDRESS") <=> accepted = <<>>

OneRejectedOneAccepted ==
    /\ batch.pc = "done"
    /\ Len(batch.input) = 2
    /\ ~isValidPublicKey(batch.input[1].wallet)
    /\ Len(batch.recipients) = 1
    /\ SameEntries(batch.recipients, <<batch.input[2]>>)

(***************************************************************************)
(* Claims about the balance failures of Transfer and Claim (SpecOps).      *)
(***************************************************************************)
\* the lamports the operation has to cover
TargetOf(o) ==
    IF o.kind = "claim" THEN FFloor(FMul(FDiv(o.requested, LAMPORTS_PER_SOL), LAMPORTS_PER_SOL))
    ELSE o.requested
SameMessage(error, e) == error.name = e.name /\ error.code = e.code /\ ~error.sento
NothingRequestedOrSubmitted ==
    /\ ~op.ok
    /\ op.proof = <<>>
    /\ op.ix = NoInstruction
    /\ accounts = op.items
    /\ settled = <<>>
    /\ publicBalance = 0

SettledFor(inv, by) ==
    /\ inv.txSignature \in 1..Len(settled)
    /\ settled[inv.txSignature].to = inv.recipient.text
    /\ settled[inv.txSignature].lamports = inv.amount
    /\ settled[inv.txSignature].by = by

PaidMeansSettled ==
    /\ invoice.status = "paid" => SettledFor(invoice, "payAmount")
    /\ invoice.status = "unpaid" => invoice.txSignature = 0
    /\ \A k \in 1..Len(batch.invoices) :
           batch.invoices[k].status = "paid" /\ SettledFor(batch.invoices[k], "batch")

PaidOnlyOnSettlement ==
    [][/\ PaidMeansSettled'
       /\ invoice' # invoice =>
             /\ pay.pc = "returned"
             /\ pay.thrown = NoError
             /\ pay.result.success
             /\ Len(settled) > 0
       /\ (pay.pc = "returned" /\ pay.thrown # NoError /\ pay'.pc = "idle") =>
             /\ invoice' = invoice
             /\ page'.error # ""]_vars

PaidAfterFailedAttempt ==
    /\ invoice.status = "paid"
    /\ page.calls = 2
    /\ pay.pc = "idle"
    /\ Len(settled) = 1

\* C20: every call of transferCompressedSOL that payInvoice or executeBatch
\* makes is for an amount > 0 to a destination that new PublicKey accepted,
\* so every settled transfer of theirs has lamports > 0 and such a destination.
WellFormed(w) == isValidPublicKey(w) /\ PublicKeyError(w) = NoError

TransferCall(amount, destination) == amount > 0 /\ WellFormed(destination)

FeeAndTotalRequired ==
    /\ pay.pc # "idle" =>
          /\ pay.fee = (IF config.feeEnabled THEN (invoice.amount * 5) \div 1000 ELSE 0)
          /\ pay.total = invoice.amount + pay.fee
    /\ \A k \in 1..Len(hides) :
          hides[k].by = "pay" =>
              /\ hides[k].required = invoice.amount +
                     (IF config.feeEnabled THEN (invoice.amount * 5) \div 1000 ELSE 0)
              /\ hides[k].current < hides[k].required

FractionalFeeFloored ==
    /\ pay.pc = "amount"
    /\ pay.hid
    /\ invoice.amount = 1999
    /\ pay.fee = 9
    /\ hides[Len(hides)].required = 2008

\* C22: in payInvoice the fee leg is submitted only with a fee > 0 and after
\* the amount leg has settled; the amount leg comes first and one call makes
\* at most two transfer calls, one for the amount and one for the fee.
FeeLegAfterAmountLeg ==
    /\ pay.transfers <= 2
    /\ pay.pc = "fee" =>
          /\ pay.fee > 0
          /\ pay.transfers = 1
          /\ pay.signature = Len(settled)
          /\ settled[Len(settled)].by = "payAmount"
    /\ pay.transfers = 2 =>
          /\ pay.pc = "returned"
          /\ pay.fee > 0
          /\ pay.signature \in 1..Len(settled)
          /\ settled[pay.signature].by = "payAmount"
    /\ \A k \in 1..Len(settled) :
          settled[k].by = "payFee" =>
              /\ k > 1
              /\ settled[k - 1].by = "payAmount"
              /\ settled[k].lamports > 0
              /\ settled[k].to = config.feeWallet.text

BothLegsSettled ==
    /\ pay.pc = "returned"
    /\ pay.transfers = 2
    /\ pay.result.success
    /\ settled[Len(settled)].by = "payFee"

\* C23: when the private balance the hook has read is already >= the total,
\* the top-up does nothing: the wallet balance is not read, nothing is hidden,
\* and the public and private balances change only by the transfers.
SufficientAt(f) == f.pc \notin {"idle", "balance"} /\ f.thrown \notin {ErrInvalidPublicKey, ErrNonBase58}
                   /\ f.seen >= f.total /\ f.total > 0

NoTopUpIsNoOp ==
    [][/\ (pay.pc = "balance" /\ pay.seen >= pay.total) =>
             /\ pay'.pc = "amount"
             /\ ledgerVars' = ledgerVars
       /\ (batch.pc = "balance" /\ batch.seen >= batch.total) =>
             /\ batch'.pc = "loop"
             /\ ledgerVars' = ledgerVars
       /\ SufficientAt(pay') =>
             /\ ~pay'.walletRead /\ ~pay'.hid
             /\ hides' = hides /\ publicBalance' = publicBalance
             /\ accounts' # accounts => pay'.transfers = pay.transfers + 1
       /\ SufficientAt(batch') =>
             /\ ~batch'.walletRead /\ ~batch'.hid
             /\ hides' = hides /\ publicBalance' = publicBalance
             /\ accounts' # accounts => Len(settled') = Len(settled) + 1]_vars

BalanceEqualToTotal ==
    /\ batch.pc = "loop"
    /\ batch.i = 1
    /\ batch.attempts = 0
    /\ batch.seen = batch.total
    /\ batch.total = 25
    /\ accounts = <<25>>
    /\ ~batch.walletRead
    /\ hides = <<>>

\* C24: with no compressed account at all, Transfer and Claim end with their
\* own "No compressed SOL" error: nothing is selected, no proof is requested,
\* no instruction is built and nothing changes.
NoAccountsFailsCleanly ==
    (op.kind \in {"transfer", "claim"} /\ op.items = <<>>) =>
        /\ ~op.ok
        /\ op.error = (IF op.kind = "transfer" THEN ErrNoCompressed ELSE ErrNothingToClaim)
        /\ op.proof = <<>>
        /\ op.ix.inputs = <<>>
        /\ InputSum(op.items, op.ix) = 0
        /\ op.ix.lamports = 0
        /\ accounts = <<>>
        /\ settled = <<>>
        /\ publicBalance = 0

ClaimWithNoAccounts ==
    /\ op.kind = "claim"
    /\ op.items = <<>>
    /\ op.error = ErrNothingToClaim
    /\ op.requested > 0

(***************************************************************************)
(* SpecRace: two calls of transferCompressedSOL by one owner, each in two  *)
(* steps: up to the selection (the fetch and the loop have no await        *)
(* between them), then the proof request, the signature and the            *)
(* submission.  flows.hashes names the accounts of `accounts`, position by *)
(* position.  An account can be consumed once: the prover or the program   *)
(* refuses an input that is gone.                                          *)
(***************************************************************************)
RaceAccounts == {<<>>, <<7>>, <<7, 3>>, <<3, 2, 2>>}
RaceAmounts == {2, 5, 9}
ErrSpentInput == PlainError("input account is not in the state tree", {})

\* a caller that lets one flow per owner run at a time
RaceSerialized(i) == \A j \in 1..2 : j # i => flows.f[j].pc \in {"idle", "done"}

\* payInvoice and transferCompressedSOL start whatever else is in flight
RaceMayStart(i) == TRUE

InitRace ==
    /\ accounts \in RaceAccounts
    /\ flows = [f |-> <<FlowIdle, FlowIdle>>,
                hashes |-> [k \in 1..Len(accounts) |-> k],
                next |-> Len(accounts) + 1]
    /\ publicBalance = 0
    /\ settled = <<>>
    /\ hides = <<>>
    /\ op = NoOp
    /\ invoice = NoInvoice
    /\ pay = PayIdle
    /\ page = PageIdle
    /\ batch = BatchIdle
    /\ config = NoFee

\* getCompressedAccountsByOwner and the selection loop
RaceFetch(i, amount) ==
    /\ flows.f[i].pc = "idle"
    /\ RaceMayStart(i)
    /\ LET r == transferCompressedSOL(accounts, "walletA", amount, NoError)
       IN  flows' = [flows EXCEPT !.f[i] =
                        IF r.ok
                        THEN [pc |-> "selected", snapshot |-> flows.hashes,
                              inputs |-> [k \in 1..Len(r.ix.inputs) |->
                                             flows.hashes[r.ix.inputs[k]]],
                              amount |-> amount, ok |-> FALSE, error |-> NoError]
                        ELSE [pc |-> "done", snapshot |-> flows.hashes, inputs |-> <<>>,
                              amount |-> amount, ok |-> FALSE, error |-> r.error]]
    /\ UNCHANGED <<ledgerVars, op, payVars, batch, config>>

\* getValidityProof, the signature and sendAndConfirmTx
RaceSubmit(i, rpc) ==
    /\ flows.f[i].pc = "selected"
    /\ LET f == flows.f[i]
           live == Range(f.inputs) \subseteq Range(flows.hashes)
           positions == {k \in 1..Len(accounts) : flows.hashes[k] \in Range(f.inputs)}
           total == SumSeq([k \in 1..Len(accounts) |->
                               IF k \in positions THEN accounts[k] ELSE 0])
           change == total - f.amount
       IN  IF live /\ rpc = NoError
           THEN /\ accounts' = Without(accounts, positions, 1)
                                   \o (IF change > 0 THEN <<change>> ELSE <<>>)
                /\ settled' = Append(settled, [to |-> "walletA", lamports |-> f.amount,
                                               inputs |-> total, change |-> change,
                                               by |-> "race"])
                /\ flows' = [flows EXCEPT
                                !.f[i] = [f EXCEPT !.pc = "done", !.ok = TRUE],
                                !.hashes = Without(flows.hashes, positions, 1)
                                              \o (IF change > 0 THEN <<flows.next>> ELSE <<>>),
                                !.next = @ + 1]
           ELSE /\ flows' = [flows EXCEPT !.f[i] =
                                [f EXCEPT !.pc = "done",
                                          !.error = IF live THEN rpc ELSE ErrSpentInput]]
                /\ UNCHANGED <<accounts, settled>>
    /\ UNCHANGED <<publicBalance, hides, op, payVars, batch, config>>

RaceStart(i) == \E amount \in RaceAmounts : RaceFetch(i, amount)

NextRace ==
    \/ \E i \in 1..2 : RaceStart(i)
    \/ \E i \in 1..2, rpc \in OpOutcomes : RaceSubmit(i, rpc)

SpecRace == InitRace /\ [][NextRace]_vars

\* C25: nothing in the core keeps a second transfer flow of the same owner
\* from starting while the first is in flight; two flows that have both read
\* the account set before either has submitted have selected a common
\* account, and at most one of them can then settle.
SameSnapshotSelected ==
    /\ flows.f[1].pc = "selected"
    /\ flows.f[2].pc = "selected"
    /\ flows.f[1].snapshot = flows.f[2].snapshot

NoPerOwnerGuard ==
    /\ \A i \in 1..2 : flows.f[i].pc = "idle" => ENABLED RaceStart(i)
    /\ SameSnapshotSelected =>
          Range(flows.f[1].inputs) \cap Range(flows.f[2].inputs) # {}
    /\ (flows.f[1].ok /\ flows.f[2].ok) =>
          Range(flows.f[1].inputs) \cap Range(flows.f[2].inputs) = {}
    /\ Len(flows.hashes) = Len(accounts)
    /\ \A j, k \in 1..Len(flows.hashes) : j # k => flows.hashes[j] # flows.hashes[k]
    /\ \A k \in 1..Len(settled) : settled[k].inputs = settled[k].lamports + settled[k].change

RaceOnSharedAccount ==
    /\ SameSnapshotSelected
    /\ accounts = <<7, 3>>
    /\ flows.f[1].inputs = <<1>>
    /\ flows.f[2].inputs = <<1, 2>>
    /\ settled = <<>>

AfterHideState ==
    /\ (pay.hid /\ pay.pc = "returned" /\ pay.transfers = 0) =>
          /\ pay.thrown = SentoError("INVALID_ADDRESS")
          /\ pay.fee > 0
          /\ ~isValidPublicKey(config.feeWallet) \/ config.feeWallet.len = 0
    /\ (batch.hid /\ batch.pc = "done") =>
          \A k \in 1..Len(batch.recipients) :
              \/ batch.tried[k].attempts >= 1
              \/ PublicKeyError(batch.recipients[k].wallet) # NoError

IndexerFailureReadsAsZero ==
    /\ (pay.pc = "idle" /\ batch.pc = "idle" /\ invoice = NoInvoice) =>
          ENABLED (ExecuteBatch(<<[wallet |-> WalletA, amount |-> 10]>>, FALSE)
                      /\ batch'.pc = "balance" /\ batch'.seen = 0)
    /\ pay.pc = "balance" => pay.seen \in {0, SumSeq(accounts)}
    /\ batch.pc = "balance" => batch.seen \in {0, SumSeq(accounts)}
    /\ \A k \in 1..Len(hides) :
          hides[k].current = 0 =>
              /\ hides[k].lamports = TopUpLamports(hides[k].required, 0)
              /\ hides[k].lamports \in {hides[k].required - 1, hides[k].required}
              /\ hides[k].walletBalance >= hides[k].required + FEE_RESERVE

TopUpAfterIndexerFailure ==
    /\ pay.pc = "amount"
    /\ pay.hid
    /\ pay.seen = 0
    /\ pay.total = 1000
    /\ accounts = <<600, 500, 1000>>
    /\ hides[1].required = 1000

\* C28: a failed recipient never stops the batch: once the loop is over every
\* validated recipient has been processed, those whose wallet new PublicKey
\* rejects being failed with no transfer attempt and all the others having
\* had at least one; while the loop runs, exactly the recipients before the
\* current one are processed.
Processed(k) ==
    /\ batch.recipients[k].status \in {"paid", "failed"}
    /\ IF PublicKeyError(batch.recipients[k].wallet) # NoError
       THEN /\ batch.recipients[k].status = "failed"
            /\ batch.tried[k].attempts = 0
            /\ batch.recipients[k].error = parseError(PublicKeyError(batch.recipients[k].wallet))
       ELSE batch.tried[k].attempts >= 1

FailureNeverStopsBatch ==
    /\ batch.pc = "loop" =>
          /\ batch.i \in 1..(Len(batch.recipients) + 1)
          /\ SameEntries(batch.recipients, Sanitized(batch.input))
          /\ \A k \in 1..Len(batch.recipients) :
                IF k < batch.i THEN Processed(k)
                ELSE batch.recipients[k].status = "pending"
    /\ (batch.pc = "done" /\ batch.i > 0) =>
          /\ batch.i = Len(batch.recipients) + 1
          /\ \A k \in 1..Len(batch.recipients) : Processed(k)

BadKeyThenPaid ==
    /\ batch.pc = "done"
    /\ batch.i > 0
    /\ Len(batch.recipients) = 2
    /\ batch.recipients[1].wallet = RegexOnlyWallet
    /\ batch.recipients[1].status = "failed"
    /\ batch.tried[1].attempts = 0
    /\ batch.recipients[2].status = "paid"

\* C29: in every batch executeBatch returns, each recipient is either paid
\* with the signature of its settled transfer and no error, or failed with an
\* error reason and no signature; none is pending, there is at least one, and
\* totalAmount is the sum of their amounts.
ReturnedBatchWellFormed ==
    batch.returned = "batch" =>
        /\ batch.pc = "done"
        /\ batch.thrown = NoError
        /\ Len(batch.recipients) >= 1
        /\ batch.total = SumSeq([k \in 1..Len(batch.recipients) |-> batch.recipients[k].amount])
        /\ batch.status = BatchStatus(batch.recipients)
        /\ \A k \in 1..Len(batch.recipients) :
              LET r == batch.recipients[k]
              IN  \/ /\ r.status = "paid"
                     /\ r.error = ""
                     /\ r.txSignature \in 1..Len(settled)
                     /\ settled[r.txSignature].to = r.wallet.text
                     /\ settled[r.txSignature].lamports = r.amount
                  \/ /\ r.status = "failed"
                     /\ r.error # ""
                     /\ r.txSignature = 0

AllFailedBatchReturned ==
    /\ batch.returned = "batch"
    /\ batch.status = "failed"
    /\ Len(batch.recipients) = 2
    /\ batch.recipients[1].error # batch.recipients[2].error
    /\ settled = <<>>

\* C30: when every external call returns, an executeBatch that has entered its
\* loop reaches its end, and before the loop each step leads to the loop or to
\* the end; for n validated recipients it has made at most 3n calls of
\* transferCompressedSOL (at most 3 per recipient), it ends with a batch or
\* with null and an error, and isProcessing is true exactly while it runs.
BatchBounded ==
    /\ batch.pc \in {"balance", "loop"} => batch.isProcessing
    /\ batch.pc \in {"idle", "done"} => ~batch.isProcessing
    /\ batch.pc = "done" =>
          /\ batch.returned \in {"batch", "null"}
          /\ batch.returned = "null" <=> batch.thrown # NoError
    /\ TotalAttempts(batch) <= MaxAttempts * Len(batch.recipients)
    /\ \A k \in 1..Len(batch.tried) : batch.tried[k].attempts <= MaxAttempts
    /\ Cardinality({k \in 1..Len(settled) : settled[k].by = "batch"}) <= Len(batch.recipients)

BatchTerminates ==
    /\ (batch.pc = "loop") ~> (batch.pc = "done")
    /\ []BatchBounded
    /\ [][/\ (batch.pc = "idle" /\ batch' # batch) => batch'.pc \in {"balance", "done"}
          /\ (batch.pc = "balance" /\ batch' # batch) => batch'.pc \in {"loop", "done"}
          /\ batch.pc = "done" => batch' = batch]_vars

SixAttemptsThenDone ==
    /\ batch.pc = "done"
    /\ Len(batch.recipients) = 2
    /\ TotalAttempts(batch) = 6
    /\ batch.returned = "batch"
    /\ ~batch.isProcessing

====
